---- MODULE Spec2Model ----
(***************************************************************************)
(* Model of src/mainfolder/main.py: the ANI monthly-report consolidator.   *)
(* main() scans the sorted entries of the input root; for each directory   *)
(* named Mon-YYYY it builds an ANIProcessor (which deletes the temp CSV),  *)
(* runs it over the folder's files and converts the temp CSV to one        *)
(* ANI-<year>-<month>.xlsx.                                                *)
(*                                                                         *)
(* Text is a sequence of one-character strings, so that strip, split,      *)
(* capitalize and the regular expressions are computed, not assumed.       *)
(***************************************************************************)
EXTENDS Integers, Sequences, FiniteSets, TLC

(***************************************************************************)
(* Bounds of the model.                                                    *)
(***************************************************************************)
\* entries in the input root directory
MaxEntries == 2
\* files listed in one month folder
MaxFiles == 3

(***************************************************************************)
(* Characters.                                                             *)
(***************************************************************************)
UpperAlpha ==
  <<"A","B","C","D","E","F","G","H","I","J","K","L","M",
    "N","O","P","Q","R","S","T","U","V","W","X","Y","Z">>

LowerAlpha ==
  <<"a","b","c","d","e","f","g","h","i","j","k","l","m",
    "n","o","p","q","r","s","t","u","v","w","x","y","z">>

DigitChars == <<"0","1","2","3","4","5","6","7","8","9">>

\* the characters of the model in code-point order (what str comparison uses)
CodeOrder ==
  <<"\t", "\n", " ", "-", ".", "/">> \o DigitChars \o UpperAlpha \o <<"_">> \o LowerAlpha

Range(s) == { s[i] : i \in DOMAIN s }

IndexIn(c, s) == CHOOSE i \in DOMAIN s : s[i] = c

Ord(c) == IndexIn(c, CodeOrder)

UpperSet == Range(UpperAlpha)

LowerSet == Range(LowerAlpha)

DigitSet == Range(DigitChars)

IsUpper(c) == c \in UpperSet

IsLower(c) == c \in LowerSet

\* [A-Za-z]
IsLetter(c) == IsUpper(c) \/ IsLower(c)

\* \d
IsDigit(c) == c \in DigitSet

\* \s, and what str.strip() removes
IsSpace(c) == c \in {" ", "\t", "\n"}

ToUpper(c) == IF IsLower(c) THEN UpperAlpha[IndexIn(c, LowerAlpha)] ELSE c

ToLower(c) == IF IsUpper(c) THEN LowerAlpha[IndexIn(c, UpperAlpha)] ELSE c

\* str.lower()
Lower(s) == [i \in DOMAIN s |-> ToLower(s[i])]

\* str.capitalize(): first character upper-cased, the rest lower-cased
Capitalize(s) == [i \in DOMAIN s |-> IF i = 1 THEN ToUpper(s[i]) ELSE ToLower(s[i])]

RECURSIVE LStrip(_)
LStrip(s) == IF s # <<>> /\ IsSpace(Head(s)) THEN LStrip(Tail(s)) ELSE s

RECURSIVE RStrip(_)
RStrip(s) ==
  IF s # <<>> /\ IsSpace(s[Len(s)]) THEN RStrip(SubSeq(s, 1, Len(s) - 1)) ELSE s

\* str.strip()
Strip(s) == RStrip(LStrip(s))

\* s[i:i+len(p)] == p
MatchAt(s, i, p) ==
  /\ i >= 1
  /\ i + Len(p) - 1 <= Len(s)
  /\ SubSeq(s, i, i + Len(p) - 1) = p

\* str.endswith
EndsWith(s, p) == MatchAt(s, Len(s) - Len(p) + 1, p)

\* str < str: lexicographic by code point
StrLess(a, b) ==
  \E k \in 0..Len(a) :
    /\ k <= Len(b)
    /\ SubSeq(a, 1, k) = SubSeq(b, 1, k)
    /\ \/ k = Len(a) /\ k < Len(b)
       \/ k < Len(a) /\ k < Len(b) /\ Ord(a[k + 1]) < Ord(b[k + 1])

(***************************************************************************)
(* Folder names: main()'s filter and ANIProcessor.__init__.                *)
(***************************************************************************)
MonthNames ==
  << <<"J","a","n">>, <<"F","e","b">>, <<"M","a","r">>, <<"A","p","r">>,
     <<"M","a","y">>, <<"J","u","n">>, <<"J","u","l">>, <<"A","u","g">>,
     <<"S","e","p">>, <<"O","c","t">>, <<"N","o","v">>, <<"D","e","c">> >>

TwoDigits(n) == <<DigitChars[(n \div 10) + 1], DigitChars[(n % 10) + 1]>>

\* self.month_map: "Jan" -> "01", ..., "Dec" -> "12"
month_map == [m \in Range(MonthNames) |-> TwoDigits(IndexIn(m, MonthNames))]

AllIn(s, lo, hi, P(_)) == \A i \in lo..hi : i \in DOMAIN s /\ P(s[i])

\* a pattern's final $ matches at the end, or before one trailing newline
AtEnd(s, n) == Len(s) = n \/ (Len(s) = n + 1 /\ s[n + 1] = "\n")

\* re.match(r"^(Jan|...|Dec)-\d{4}$", name, re.IGNORECASE)
MainFolderMatch(name) ==
  /\ Len(name) >= 8
  /\ \E m \in Range(MonthNames) : Lower(SubSeq(name, 1, 3)) = Lower(m)
  /\ name[4] = "-"
  /\ AllIn(name, 5, 8, IsDigit)
  /\ AtEnd(name, 8)

\* re.match(r'([A-Za-z]+)-(\d{4})$', folder_name): the lengths k of group 1
\* for which the pattern matches (at most one)
FolderMatchK(name) ==
  { k \in 1..Len(name) :
      /\ AllIn(name, 1, k, IsLetter)
      /\ k + 5 <= Len(name)
      /\ name[k + 1] = "-"
      /\ AllIn(name, k + 2, k + 5, IsDigit)
      /\ AtEnd(name, k + 5) }

NoProcessor ==
  [built |-> FALSE, folder_name |-> <<>>, folder_year |-> <<>>,
   month_text_cap |-> <<>>, folder_month |-> <<>>]

\* ANIProcessor.__init__ after the temp CSV is purged: the fields derived from
\* the folder name, or NoProcessor when one of the two ValueErrors is raised
NewProcessor(name) ==
  IF FolderMatchK(name) = {} THEN NoProcessor
  ELSE LET k == CHOOSE k \in FolderMatchK(name) : TRUE
           month_text == SubSeq(name, 1, k)
           cap == Capitalize(month_text)
       IN  IF cap \notin DOMAIN month_map THEN NoProcessor
           ELSE [built |-> TRUE,
                 folder_name |-> name,
                 folder_year |-> SubSeq(name, k + 2, k + 5),
                 month_text_cap |-> cap,
                 folder_month |-> month_map[cap]]

(***************************************************************************)
(* File names: ANIProcessor.parse_filename.                                *)
(***************************************************************************)
DotXlsx == <<".","x","l","s","x">>

MarkerFS == <<"_","F","S">>

\* os.path.splitext(filename)[0]: cut at the last dot, unless only dots
\* precede it
SplitExtRoot(s) ==
  LET dots == { i \in DOMAIN s : s[i] = "." }
  IN  IF dots = {} THEN s
      ELSE LET d == CHOOSE i \in dots : \A j \in dots : j <= i
           IN  IF \E j \in 1..(d - 1) : s[j] # "." THEN SubSeq(s, 1, d - 1) ELSE s

\* s.split("_FS")[0]
BeforeMarker(s) ==
  LET at == { i \in DOMAIN s : MatchAt(s, i, MarkerFS) }
  IN  IF at = {} THEN s
      ELSE SubSeq(s, 1, (CHOOSE i \in at : \A j \in at : i <= j) - 1)

\* re.search(r'_FS[\s_]*?(\d{2})-(\d{2})', s): the places <<i, k>> where the
\* marker stands at i, followed by k separators and the YY-MM digits
FileMatches(s) ==
  { p \in { i \in DOMAIN s : MatchAt(s, i, MarkerFS) } \X (0..Len(s)) :
      LET i == p[1]
          k == p[2]
          d == i + 3 + k
      IN  /\ \A j \in (i + 3)..(d - 1) : j \in DOMAIN s /\ (IsSpace(s[j]) \/ s[j] = "_")
          /\ d + 4 <= Len(s)
          /\ IsDigit(s[d]) /\ IsDigit(s[d + 1])
          /\ s[d + 2] = "-"
          /\ IsDigit(s[d + 3]) /\ IsDigit(s[d + 4]) }

\* the match re.search returns: leftmost, then (lazy) the fewest separators
FirstFileMatch(s) ==
  CHOOSE p \in FileMatches(s) :
    \A q \in FileMatches(s) : p[1] < q[1] \/ (p[1] = q[1] /\ p[2] <= q[2])

\* the (\d{2}) groups of the match: <<YY, MM>>
FileDigits(s) ==
  LET p == FirstFileMatch(s)
      d == p[1] + 3 + p[2]
  IN  <<SubSeq(s, d, d + 1), SubSeq(s, d + 3, d + 4)>>

NoInfo ==
  [some |-> FALSE, FileName |-> <<>>, OrgCode |-> <<>>, BranchOrgCode |-> <<>>,
   DocuDate |-> <<>>, DateYear |-> <<>>, DateMonth |-> <<>>]

OrgCodeANI == <<"A","N","I">>

\* f"01/{month}/{year}"
DocuDateOf(month, year) == <<"0","1","/">> \o month \o <<"/">> \o year

CompanyInfo(filename, branch, month, year) ==
  [some |-> TRUE, FileName |-> filename, OrgCode |-> OrgCodeANI,
   BranchOrgCode |-> branch, DocuDate |-> DocuDateOf(month, year),
   DateYear |-> year, DateMonth |-> month]

\* a variant that tags rows with the period embedded in the file name
ParseFilename_FromFile(self, filename) ==
  LET filename_no_ext == Strip(SplitExtRoot(filename))
  IN  IF FileMatches(filename_no_ext) = {} THEN NoInfo
      ELSE CompanyInfo(filename, BeforeMarker(filename_no_ext),
                       FileDigits(filename_no_ext)[2],
                       <<"2","0">> \o FileDigits(filename_no_ext)[1])

\* ANIProcessor.parse_filename: NoInfo stands for the None it returns
ParseFilename(self, filename) ==
  LET filename_no_ext == Strip(SplitExtRoot(filename))
  IN  IF FileMatches(filename_no_ext) = {} THEN NoInfo
      ELSE CompanyInfo(filename, BeforeMarker(filename_no_ext),
                       self.folder_month, self.folder_year)

(***************************************************************************)
(* Cells of a sheet, as pandas holds them: a missing cell (NaN), a string, *)
(* or a number written in decimal digits.                                  *)
(***************************************************************************)
NaN == [t |-> "nan", s |-> <<>>]

Str(s) == [t |-> "str", s |-> s]

Num(s) == [t |-> "num", s |-> s]

\* x.astype(str) of one cell: NaN becomes the text "nan"
AsStr(c) == IF c.t = "nan" THEN Str(<<"n","a","n">>) ELSE Str(c.s)

\* Series.notna() of one cell
NotNa(c) == c.t # "nan"

\* Series.astype(str).str.strip() of one cell
StripCell(c) == Str(Strip(AsStr(c).s))

AccountNo == <<"A","c","c","o","u","n","t"," ","N","o",".">>

AccountDescription ==
  <<"A","c","c","o","u","n","t"," ","D","e","s","c","r","i","p","t","i","o","n">>

THB == <<"T","H","B">>

AccCode == <<"A","c","c","C","o","d","e">>

AccName == <<"A","c","c","N","a","m","e">>

AcccumMonthAmnt == <<"A","c","c","c","u","m","M","o","n","t","h","A","m","n","t">>

required_cols == <<AccountNo, AccountDescription, THB>>

\* the five columns data.insert() prepends, in their final order
MetaColumns ==
  << <<"O","r","g","C","o","d","e">>,
     <<"B","r","a","n","c","h","O","r","g","C","o","d","e">>,
     <<"D","o","c","u","D","a","t","e">>,
     <<"D","a","t","e","Y","e","a","r">>,
     <<"D","a","t","e","M","o","n","t","h">> >>

(***************************************************************************)
(* ANIProcessor.process_data, step by step.                                *)
(***************************************************************************)
\* pd.read_excel(file, sheet_name=...): with the default header=0 the first
\* row of the sheet becomes the column labels and the frame's rows are the
\* rows below it
ReadExcel(grid) ==
  IF grid = <<>> THEN [columns |-> <<>>, rows |-> <<>>]
  ELSE [columns |-> Head(grid), rows |-> Tail(grid)]

\* "Account No." in row.values
RowHasAnchor(row) == \E j \in DOMAIN row : row[j] = Str(AccountNo)

\* the loop over df.iterrows(): the first row holding the anchor; positions
\* count from 1, and 0 stands for None
HeaderRow(rows) ==
  IF \E i \in DOMAIN rows : RowHasAnchor(rows[i])
  THEN CHOOSE i \in DOMAIN rows :
         /\ RowHasAnchor(rows[i])
         /\ \A j \in 1..(i - 1) : ~RowHasAnchor(rows[j])
  ELSE 0

\* df.iloc[header_row].astype(str).str.strip()
Labels(row) == [j \in DOMAIN row |-> StripCell(row[j]).s]

\* df.iloc[header_row+1:].reset_index(drop=True)
DataBlock(rows, header_row) == SubSeq(rows, header_row + 1, Len(rows))

\* a validation that finds nothing missing
MissingCols_None(columns) == <<>>

\* [col for col in required_cols if col not in data.columns]
MissingCols(columns) ==
  SelectSeq(required_cols, LAMBDA col : col \notin Range(columns))

\* data.rename(columns={...})
Rename(columns) ==
  [j \in DOMAIN columns |->
     CASE columns[j] = AccountNo -> AccCode
       [] columns[j] = AccountDescription -> AccName
       [] columns[j] = THB -> AcccumMonthAmnt
       [] OTHER -> columns[j]]

RECURSIVE Pick(_, _, _)
\* the cells of row under the columns labelled label, left to right
Pick(columns, row, label) ==
  IF columns = <<>> THEN <<>>
  ELSE (IF Head(columns) = label THEN <<Head(row)>> ELSE <<>>)
       \o Pick(Tail(columns), Tail(row), label)

\* data[["AccCode", "AccName", "AcccumMonthAmnt"]] of one row
Project(columns, row) ==
  Pick(columns, row, AccCode) \o Pick(columns, row, AccName)
    \o Pick(columns, row, AcccumMonthAmnt)

\* a filter that only tests the stripped text
KeepRow_TextOnly(acc) == StripCell(acc).s # <<>>

\* data["AccCode"].notna() & (data["AccCode"].astype(str).str.strip() != "")
KeepRow(acc) == NotNa(acc) /\ StripCell(acc).s # <<>>

\* data[mask]: rows are projected, AccCode is their first cell
RowFilter(block) == SelectSeq(block, LAMBDA r : KeepRow(r[1]))

\* one cell as to_csv writes it: NaN is the empty field
CsvField(c) == IF c.t = "nan" THEN <<>> ELSE c.s

\* the header line to_csv writes
HeaderLine(columns, src) ==
  [kind |-> "header",
   fields |-> MetaColumns \o Project(columns, columns),
   src |-> src]

\* a data line: the five inserted columns, then the projected cells
RowLine(company_info, r, src) ==
  [kind |-> "row",
   fields |-> <<company_info.OrgCode, company_info.BranchOrgCode,
                company_info.DocuDate, company_info.DateYear,
                company_info.DateMonth>>
              \o [j \in DOMAIN r |-> CsvField(r[j])],
   src |-> src]

\* bookkeeping: the file a line comes from, as the position of its folder in
\* the root listing and its name
FileSrc(folder, name) == [folder |-> folder, file |-> name]

NoStore == [exists |-> FALSE, lines |-> <<>>]

\* always write the header
WriteHeader_Always(store) == TRUE

\* write_header = not os.path.exists(self.temp_csv)
WriteHeader(store) == ~store.exists

\* data.to_csv(self.temp_csv, index=False, mode="a", header=write_header)
ToCsv(store, columns, company_info, data, src) ==
  [exists |-> TRUE,
   lines |-> store.lines
             \o (IF WriteHeader(store) THEN <<HeaderLine(columns, src)>> ELSE <<>>)
             \o [i \in DOMAIN data |-> RowLine(company_info, data[i], src)]]

\* process_data on a file that has the month's sheet: what it leaves behind.
\* outcome is "noanchor" and "missingcols" for the two early returns,
\* "dupkey" when data["AccCode"] is a frame (two key columns) and .str raises,
\* "appended" otherwise.
ProcessData(store, grid, company_info, src) ==
  LET df == ReadExcel(grid)
      header_row == HeaderRow(df.rows)
      columns == IF header_row = 0 THEN <<>> ELSE Labels(df.rows[header_row])
      block == IF header_row = 0 THEN <<>> ELSE DataBlock(df.rows, header_row)
      renamed == Rename(columns)
      projected == [i \in DOMAIN block |-> Project(renamed, block[i])]
      data == RowFilter(projected)
      skip(o) == [outcome |-> o, header_row |-> header_row, columns |-> columns,
                  block |-> block, data |-> <<>>, store |-> store]
  IN  IF header_row = 0 THEN skip("noanchor")
      ELSE IF MissingCols(columns) # <<>> THEN skip("missingcols")
      ELSE IF Len(Pick(renamed, renamed, AccCode)) > 1 THEN skip("dupkey")
      ELSE [outcome |-> "appended", header_row |-> header_row,
            columns |-> columns, block |-> block, data |-> data,
            store |-> ToCsv(store, renamed, company_info, data, src)]

(***************************************************************************)
(* ANIProcessor.convert_csv_to_xlsx.                                       *)
(***************************************************************************)
\* the field texts read_csv takes for a missing value (some of them)
NaTexts ==
  { <<>>, <<"N","A">>, <<"N","a","N">>, <<"n","a","n">>, <<"n","u","l","l">>,
    <<"N","U","L","L">>, <<"N","/","A">> }

IsIntText(f) == f # <<>> /\ \A i \in DOMAIN f : IsDigit(f[i])

RECURSIVE IntText(_)
\* str(int(f)): the digits without leading zeros
IntText(f) == IF Len(f) > 1 /\ Head(f) = "0" THEN IntText(Tail(f)) ELSE f

\* read_csv infers a column's type from all of its fields
ColumnNumeric(rows, j) ==
  /\ \E i \in DOMAIN rows : rows[i].fields[j] \notin NaTexts
  /\ \A i \in DOMAIN rows :
       rows[i].fields[j] \in NaTexts \/ IsIntText(rows[i].fields[j])

ParseField(f, numeric) ==
  IF f \in NaTexts THEN NaN
  ELSE IF numeric THEN Num(IntText(f))
  ELSE Str(f)

\* pd.read_csv(self.temp_csv): the first line gives the columns
ReadCsv(store) ==
  LET rows == Tail(store.lines)
  IN  [columns |-> Head(store.lines).fields,
       rows |-> [i \in DOMAIN rows |->
                   [cells |-> [j \in DOMAIN rows[i].fields |->
                                 ParseField(rows[i].fields[j], ColumnNumeric(rows, j))],
                    src |-> rows[i].src]]]

\* f"ANI-{self.file_info['DateYear']}-{self.file_info['DateMonth']}"
ExportName(file_info) ==
  <<"A","N","I","-">> \o file_info.DateYear \o <<"-">> \o file_info.DateMonth

\* the workbook final_df.to_excel writes at output_folder/<export_name>.xlsx;
\* by is bookkeeping: the position in the root listing of the folder whose
\* run wrote it
Artifact(file_info, store, by) ==
  [path |-> ExportName(file_info) \o DotXlsx,
   by |-> by,
   sheet_name |-> ExportName(file_info),
   columns |-> ReadCsv(store).columns,
   rows |-> ReadCsv(store).rows]

\* writing a file replaces whatever stood at its path
WriteFile(outputs, a) == { o \in outputs : o.path # a.path } \cup {a}

(***************************************************************************)
(* The inputs the model draws from: directory entries of the input root,   *)
(* file names of a month folder, and workbook contents.                    *)
(***************************************************************************)
Entry(name, is_dir) == [name |-> name, is_dir |-> is_dir]

\* a root listing is drawn from these: two month folders, a directory that
\* is none, and a plain file with a month folder's name
EntryPool ==
  { Entry(<<"J","u","n","-","2","0","2","5">>, TRUE),
    Entry(<<"j","u","n","-","2","0","2","5">>, TRUE),
    Entry(<<"F","o","o","-","2","0","2","5">>, TRUE),
    Entry(<<"D","e","c","-","2","0","2","3">>, FALSE) }

\* str.upper()
Upper(s) == [i \in DOMAIN s |-> ToUpper(s[i])]

\* a root holding one directory: every month in three letter cases, and
\* directories that are no month folder
OneFolderPool ==
  { Entry(c \o <<"-","2","0","2","4">>, TRUE) :
      c \in UNION { {m, Lower(m), Upper(m)} : m \in Range(MonthNames) } }
    \cup { Entry(<<"J","u","n","e","-","2","0","2","4">>, TRUE),
           Entry(<<"J","u","n","-","2","4">>, TRUE) }

FileNames ==
  { <<"A","_","F","S","2","5","-","0","6",".","x","l","s","x">>,
    <<"B","_","F","S","_"," ","2","4","-","0","1","v","2",".","x","l","s","x">>,
    <<"B","A","D",".","x","l","s","x">>,
    <<"C","_","F","S","5","-","0","6",".","x","l","s","x">>,
    <<"n","o","t","e","s",".","t","x","t">> }

rTitle == <<Str(<<"R","e","p","o","r","t">>), NaN, NaN>>

rHead == <<Str(AccountNo), Str(AccountDescription), Str(<<"T","H","B"," ">>)>>

rHeadNoThb == <<Str(AccountNo), Str(AccountDescription), Str(<<"U","S","D">>)>>

rHeadPadded == <<Str(<<" ">> \o AccountNo), Str(AccountDescription), Str(THB)>>

rCash == <<Str(<<"A","1">>), Str(<<"C","a","s","h">>), Num(<<"1","0","0">>)>>

rNoKey == <<NaN, Str(<<"C","a","s","h">>), Num(<<"5">>)>>

rBlankKey == <<Str(<<" ","\t">>), NaN, Num(<<"5">>)>>

rNumKey == <<Num(<<"0","7">>), Str(<<"N","A">>), NaN>>

\* sheets of the month: the anchor below a title row and again as a data
\* row; in the first row only; in the first row and again below; without
\* THB; absent; padded; and the empty sheet
Grids ==
  { <<rTitle, rHead, rCash, rNoKey, rBlankKey, rHead, rNumKey>>,
    <<rHead, rCash>>,
    <<rHead, rNumKey, rHead, rCash>>,
    <<rTitle, rHeadNoThb, rCash>>,
    <<rTitle, rCash>>,
    <<rTitle, rHeadPadded, rCash>>,
    <<>> }

\* a workbook: whether it has the sheet named by the month, and that sheet
Contents ==
  { [has_sheet |-> TRUE, grid |-> g] : g \in Grids }
    \cup { [has_sheet |-> FALSE, grid |-> <<>>] }

\* what an earlier run left at the temp CSV's path
Leftover ==
  LET info == CompanyInfo(<<"o","l","d">>, <<"Z">>, <<"0","1">>, <<"2","0","2","0">>)
      cols == Rename(Labels(rHead))
  IN  ToCsv(NoStore, cols, info, <<Project(cols, rCash)>>, FileSrc(0, <<"o","l","d">>))

\* sorted(input_folder.iterdir()): paths under one parent order by name
Sorted(S) ==
  CHOOSE q \in [1..Cardinality(S) -> S] :
    /\ \A e \in S : \E i \in DOMAIN q : q[i] = e
    /\ \A i, j \in DOMAIN q : i < j => StrLess(q[i].name, q[j].name)

(***************************************************************************)
(* State.                                                                  *)
(*   entries    sorted(input_folder.iterdir()), fixed when main() starts   *)
(*   idx        position of main()'s loop in entries                       *)
(*   pc         ScanningFolders | ProcessingFolder | Done | Crashed        *)
(*   processor  the ANIProcessor of the folder being processed             *)
(*   file_info  its self.file_info                                         *)
(*   temp_csv   the file at the temp CSV's path                            *)
(*   outputs    the files of the output folder                             *)
(*   files      the files run() has listed so far, each with its outcome   *)
(*              and whether it is one to skip                              *)
(*   call       the last file handled: its inputs and process_data's       *)
(*              locals                                                     *)
(*   converts   calls of convert_csv_to_xlsx by this processor             *)
(*   built      the folder names an ANIProcessor was constructed for       *)
(*   produced   the paths written so far, each with the writing folder     *)
(*   crash      the exception that ended main(), if any                    *)
(***************************************************************************)
VARIABLES entries, idx, pc, processor, file_info, temp_csv, outputs,
          files, call, converts, built, produced, crash

vars ==
  <<entries, idx, pc, processor, file_info, temp_csv, outputs,
    files, call, converts, built, produced, crash>>

NoCall ==
  [name |-> <<>>, has_sheet |-> FALSE, grid |-> <<>>, outcome |-> "none",
   header_row |-> 0, columns |-> <<>>, block |-> <<>>, data |-> <<>>]

NameOnlyCall(name, outcome) == [NoCall EXCEPT !.name = name, !.outcome = outcome]

Init ==
  /\ entries \in { Sorted(S) : S \in { T \in SUBSET EntryPool : Cardinality(T) <= MaxEntries } }
  /\ idx = 1
  /\ pc = "ScanningFolders"
  /\ processor = NoProcessor
  /\ file_info = NoInfo
  /\ temp_csv \in {NoStore, Leftover}
  /\ outputs = {}
  /\ files = {}
  /\ call = NoCall
  /\ converts = 0
  /\ built = <<>>
  /\ produced = <<>>
  /\ crash = "none"

\* the condition of main()'s two nested ifs
IsMonthFolder(e) == e.is_dir /\ MainFolderMatch(e.name)

\* the purge left out
RemoveIfExists_Keep(store) == store

\* if os.path.exists(self.temp_csv): os.remove(self.temp_csv)
RemoveIfExists(store) == IF store.exists THEN NoStore ELSE store

\* main(): an entry that is no directory, or whose name is no month folder
SkipEntry ==
  /\ pc = "ScanningFolders"
  /\ idx <= Len(entries)
  /\ ~IsMonthFolder(entries[idx])
  /\ idx' = idx + 1
  /\ UNCHANGED <<entries, pc, processor, file_info, temp_csv, outputs,
                 files, call, converts, built, produced, crash>>

\* main(): processor = ANIProcessor(subfolder, output_folder, temp_csv)
Construct ==
  /\ pc = "ScanningFolders"
  /\ idx <= Len(entries)
  /\ IsMonthFolder(entries[idx])
  /\ file_info' = NoInfo
  /\ temp_csv' = RemoveIfExists(temp_csv)
  /\ processor' = NewProcessor(entries[idx].name)
  /\ IF processor'.built
     THEN /\ pc' = "ProcessingFolder"
          /\ built' = Append(built, entries[idx].name)
          /\ crash' = crash
     ELSE /\ pc' = "Crashed"
          /\ built' = built
          /\ crash' = "ValueError: folder name"
  /\ files' = {}
  /\ call' = NoCall
  /\ converts' = 0
  /\ UNCHANGED <<entries, idx, outputs, produced>>

(***************************************************************************)
(* Bookkeeping for the properties: whether a file is one the pipeline must *)
(* skip, decided on the file's name and sheet alone.                       *)
(***************************************************************************)
\* the name, without its extension, holds no _FS<YY>-<MM>
NameLacksPattern(name) == FileMatches(Strip(SplitExtRoot(name))) = {}

\* no row of the sheet holds the anchor label
SheetLacksAnchor(grid) == \A i \in DOMAIN grid : ~RowHasAnchor(grid[i])

\* the relabeled header misses one of the three required columns
HeaderLacksColumn(c) ==
  /\ c.header_row > 0
  /\ \E col \in Range(required_cols) : col \notin Range(c.columns)

\* the last file handled is one the pipeline must skip
MustSkip(c) ==
  \/ NameLacksPattern(c.name)
  \/ c.has_sheet /\ (SheetLacksAnchor(c.grid) \/ HeaderLacksColumn(c))

\* run() may list name next: listdir names are distinct
Listable(name) ==
  /\ pc = "ProcessingFolder"
  /\ Cardinality(files) < MaxFiles
  /\ \A f \in files : f.name # name

\* files with the file of call c added
Listed(c) ==
  files \cup {[name |-> c.name, outcome |-> c.outcome, must_skip |-> MustSkip(c)]}

\* run(): a file that does not end with ".xlsx"
SkipNonXlsx(name) ==
  /\ Listable(name)
  /\ ~EndsWith(name, DotXlsx)
  /\ call' = NameOnlyCall(name, "notxlsx")
  /\ files' = Listed(call')
  /\ UNCHANGED <<entries, idx, pc, processor, file_info, temp_csv, outputs,
                 converts, built, produced, crash>>

\* run(): parse_filename returned None
SkipBadName(name) ==
  /\ Listable(name)
  /\ EndsWith(name, DotXlsx)
  /\ ~ParseFilename(processor, name).some
  /\ call' = NameOnlyCall(name, "badname")
  /\ files' = Listed(call')
  /\ UNCHANGED <<entries, idx, pc, processor, file_info, temp_csv, outputs,
                 converts, built, produced, crash>>

\* run(): process_data returns (after appending, or after one of its two
\* early returns), then self.file_info = company_info
ProcessFile(name) ==
  /\ Listable(name)
  /\ EndsWith(name, DotXlsx)
  /\ ParseFilename(processor, name).some
  /\ \E content \in Contents :
     LET company_info == ParseFilename(processor, name)
         r == ProcessData(temp_csv, content.grid, company_info,
                          FileSrc(idx, name))
     IN  /\ content.has_sheet
         /\ r.outcome # "dupkey"
         /\ temp_csv' = r.store
         /\ file_info' = company_info
         /\ call' = [name |-> name, has_sheet |-> TRUE, grid |-> content.grid,
                     outcome |-> r.outcome, header_row |-> r.header_row,
                     columns |-> r.columns, block |-> r.block, data |-> r.data]
         /\ files' = Listed(call')
  /\ UNCHANGED <<entries, idx, pc, processor, outputs, converts, built,
                 produced, crash>>

\* run(): process_data raises: read_excel finds no sheet named by the month
\* (ValueError), or two key columns make data["AccCode"] a frame
\* (AttributeError); nothing catches it
ProcessFileRaises(name) ==
  /\ Listable(name)
  /\ EndsWith(name, DotXlsx)
  /\ ParseFilename(processor, name).some
  /\ \E content \in Contents :
     LET company_info == ParseFilename(processor, name)
         outcome == IF ~content.has_sheet THEN "nosheet"
                    ELSE ProcessData(temp_csv, content.grid, company_info,
                                     FileSrc(idx, name)).outcome
     IN  /\ outcome \in {"nosheet", "dupkey"}
         /\ call' = [NoCall EXCEPT !.name = name, !.has_sheet = content.has_sheet,
                                   !.grid = content.grid, !.outcome = outcome]
         /\ files' = Listed(call')
         /\ crash' = IF outcome = "nosheet" THEN "ValueError: worksheet not found"
                     ELSE "AttributeError: key column"
  /\ pc' = "Crashed"
  /\ UNCHANGED <<entries, idx, processor, file_info, temp_csv, outputs,
                 converts, built, produced>>

\* run(): the listing is exhausted and self.file_info is still None
RunEndsWithoutInfo ==
  /\ pc = "ProcessingFolder"
  /\ ~file_info.some
  /\ pc' = "ScanningFolders"
  /\ idx' = idx + 1
  /\ UNCHANGED <<entries, processor, file_info, temp_csv, outputs, files,
                 call, converts, built, produced, crash>>

\* run(): the listing is exhausted, self.file_info is set:
\* convert_csv_to_xlsx() reads the temp CSV and writes the workbook
Convert ==
  /\ pc = "ProcessingFolder"
  /\ file_info.some
  /\ temp_csv.exists
  /\ temp_csv.lines # <<>>
  /\ converts' = converts + 1
  /\ outputs' = WriteFile(outputs, Artifact(file_info, temp_csv, idx))
  /\ produced' = Append(produced, [folder |-> idx,
                                   path |-> Artifact(file_info, temp_csv, idx).path])
  /\ pc' = "ScanningFolders"
  /\ idx' = idx + 1
  /\ UNCHANGED <<entries, processor, file_info, temp_csv, files, call,
                 built, crash>>

\* run(): convert_csv_to_xlsx() is called and pd.read_csv raises: there is
\* no temp CSV (FileNotFoundError) or it is empty (EmptyDataError)
ConvertRaises ==
  /\ pc = "ProcessingFolder"
  /\ file_info.some
  /\ ~(temp_csv.exists /\ temp_csv.lines # <<>>)
  /\ converts' = converts + 1
  /\ crash' = IF temp_csv.exists THEN "EmptyDataError" ELSE "FileNotFoundError: temp csv"
  /\ pc' = "Crashed"
  /\ UNCHANGED <<entries, idx, processor, file_info, temp_csv, outputs, files,
                 call, built, produced>>

\* main(): the loop is over; the two existence checks only print
Finish ==
  /\ pc = "ScanningFolders"
  /\ idx > Len(entries)
  /\ pc' = "Done"
  /\ UNCHANGED <<entries, idx, processor, file_info, temp_csv, outputs, files,
                 call, converts, built, produced, crash>>

Next ==
  \/ SkipEntry
  \/ Construct
  \/ \E name \in FileNames : SkipNonXlsx(name)
  \/ \E name \in FileNames : SkipBadName(name)
  \/ \E name \in FileNames : ProcessFile(name)
  \/ \E name \in FileNames : ProcessFileRaises(name)
  \/ RunEndsWithoutInfo
  \/ Convert
  \/ ConvertRaises
  \/ Finish

Spec == Init /\ [][Next]_vars

\* main() on a root that holds a single directory
InitOneFolder ==
  /\ entries \in { <<e>> : e \in OneFolderPool }
  /\ idx = 1
  /\ pc = "ScanningFolders"
  /\ processor = NoProcessor
  /\ file_info = NoInfo
  /\ temp_csv \in {NoStore, Leftover}
  /\ outputs = {}
  /\ files = {}
  /\ call = NoCall
  /\ converts = 0
  /\ built = <<>>
  /\ produced = <<>>
  /\ crash = "none"

SpecOneFolder == InitOneFolder /\ [][Next]_vars

(***************************************************************************)
(* Vocabulary of the properties, stated on the inputs and on the text of   *)
(* the temp CSV rather than on the branch process_data took.               *)
(***************************************************************************)
FileB ==
  <<"B","_","F","S","_"," ","2","4","-","0","1","v","2",".","x","l","s","x">>

\* the header line of the temp CSV, as text
HeaderFields == MetaColumns \o <<AccCode, AccName, AcccumMonthAmnt>>

MonthFolders == { i \in DOMAIN entries : IsMonthFolder(entries[i]) }

\* the period a folder name stands for, read off the name itself
YearOfFolder(name) == SubSeq(name, Len(name) - 3, Len(name))

MonthOfFolder(name) ==
  TwoDigits(CHOOSE i \in DOMAIN MonthNames :
              Lower(MonthNames[i]) = Lower(SubSeq(name, 1, 3)))

RowLines(store) == { i \in DOMAIN store.lines : store.lines[i].kind = "row" }

Terminated == pc \in {"Done", "Crashed"}

\* main() ended on a file outside the three skip classes: a workbook
\* without the month's sheet, or a header with two key columns
UnreadableFile == \E f \in files : f.outcome \in {"nosheet", "dupkey"}

(***************************************************************************)
(* C1.  Per-file errors are non-fatal: whatever .xlsx files a folder       *)
(* holds, as long as each is processed or skipped for its name, a missing  *)
(* anchor row or a missing column, run() ends normally.                    *)
(* Violated: run() sets file_info after a skipped file too, so a folder    *)
(* whose name-valid files were all skipped reaches convert_csv_to_xlsx     *)
(* with no temp CSV, and pd.read_csv raises.                               *)
(***************************************************************************)
C1_RunCompletesNormally ==
  (pc = "Crashed" /\ crash # "ValueError: folder name") => UnreadableFile

(***************************************************************************)
(* C2.  The finalizer is invoked at most once per folder run, and only if  *)
(* at least one file of the folder was appended to the temp CSV; the       *)
(* artifact it writes is named by the period of that file.                 *)
(* Violated: it is invoked when file_info is set, which a skipped file     *)
(* does as well.                                                           *)
(***************************************************************************)
C2_FinalizerOnlyAfterSuccess ==
  /\ converts <= 1
  /\ converts > 0 => \E f \in files : f.outcome = "appended"
  /\ \A o \in outputs :
       o.by = idx - 1 /\ pc = "ScanningFolders" /\ converts > 0
         => o.path = <<"A","N","I","-">> \o file_info.DateYear \o <<"-">>
                       \o file_info.DateMonth \o DotXlsx

\* no line of the temp CSV, and no row of the artifact the folder's run has
\* just written, comes from a file that had to be skipped
C3_NoLineFromSkipped ==
  LET skipped == { f.name : f \in { g \in files : g.must_skip } }
  IN  /\ pc = "ProcessingFolder" =>
           \A i \in DOMAIN temp_csv.lines :
             ~(temp_csv.lines[i].src.folder = idx /\ temp_csv.lines[i].src.file \in skipped)
      /\ pc = "ScanningFolders" =>
           \A o \in outputs : \A i \in DOMAIN o.rows :
             ~(o.by = idx - 1 /\ converts > 0 /\ o.rows[i].src.file \in skipped)

\* the step that handles a file to skip changes neither store nor outputs
C3_SkippedStepChangesNothing ==
  (files' # files /\ files \subseteq files' /\ MustSkip(call'))
    => (temp_csv' = temp_csv /\ outputs' = outputs)

(***************************************************************************)
(* C3.  A skipped file contributes nothing: the step that handles a file   *)
(* whose name lacks the pattern, whose sheet has no anchor row or whose    *)
(* header lacks a required column leaves the temp CSV and the outputs as   *)
(* they were, and no line of the temp CSV or row of the folder's artifact  *)
(* comes from such a file.                                                 *)
(***************************************************************************)
C3_SkippedFileContributesNothing ==
  [](C3_NoLineFromSkipped) /\ [][C3_SkippedStepChangesNothing]_vars

\* a file without THB was skipped after another file had appended rows
C3_Witness ==
  /\ call.outcome = "missingcols"
  /\ MustSkip(call)
  /\ RowLines(temp_csv) # {}
  /\ \E f \in files : f.outcome = "appended"

(***************************************************************************)
(* C4.  The temp CSV is absent when a folder's accumulation begins, even   *)
(* if a previous run or folder left one; every line accumulated for a      *)
(* folder, and every row of the artifact finalized for it, comes from a    *)
(* file of that folder.                                                    *)
(***************************************************************************)
C4_StoreStartsEmpty ==
  /\ (pc = "ProcessingFolder" /\ files = {}) => ~temp_csv.exists
  /\ pc = "ProcessingFolder" =>
       \A i \in DOMAIN temp_csv.lines : temp_csv.lines[i].src.folder = idx
  /\ \A o \in outputs : \A i \in DOMAIN o.rows : o.rows[i].src.folder = o.by

\* the second month folder starts with no temp CSV although the first one
\* finalized (and so left) a temp CSV
C4_Witness ==
  /\ pc = "ProcessingFolder"
  /\ files = {}
  /\ Len(built) = 2
  /\ Len(produced) = 1
  /\ ~temp_csv.exists

(***************************************************************************)
(* C5.  An existing temp CSV holds exactly one header row, and it is its   *)
(* first line, after any sequence of appended and skipped files.           *)
(***************************************************************************)
C5_OneHeaderFirst ==
  temp_csv.exists =>
    /\ temp_csv.lines # <<>>
    /\ temp_csv.lines[1].fields = HeaderFields
    /\ \A i \in 2..Len(temp_csv.lines) : temp_csv.lines[i].fields # HeaderFields

\* two files of the folder have appended rows
C5_Witness ==
  /\ pc = "ProcessingFolder"
  /\ \E i, j \in RowLines(temp_csv) :
       temp_csv.lines[i].src.file # temp_csv.lines[j].src.file

(***************************************************************************)
(* C6.  Once main() is done, every folder that wrote an artifact still has *)
(* it: the file at that path is the one this folder's run wrote.           *)
(* Violated: the path is ANI-<year>-<month>.xlsx, and folders whose names  *)
(* differ only in letter case share it.                                    *)
(***************************************************************************)
C6_EveryFolderKeepsItsArtifact ==
  pc = "Done" =>
    \A i \in DOMAIN produced :
      \E o \in outputs : o.path = produced[i].path /\ o.by = produced[i].folder

(***************************************************************************)
(* C7.  Every row accumulated for a folder carries the folder's period:    *)
(* DateYear is the four digits of the folder name, DateMonth the code of   *)
(* its month abbreviation in any letter case, DocuDate 01/<month>/<year>,  *)
(* whatever YY-MM the file name embeds.                                    *)
(***************************************************************************)
C7_RowsCarryFolderPeriod ==
  \A i \in RowLines(temp_csv) :
    LET line == temp_csv.lines[i]
    IN  line.src.folder >= 1 =>
          LET name == entries[line.src.folder].name
          IN  /\ line.fields[4] = YearOfFolder(name)
              /\ line.fields[5] = MonthOfFolder(name)
              /\ line.fields[3] = <<"0","1","/">> \o MonthOfFolder(name) \o <<"/">>
                                    \o YearOfFolder(name)

\* a row of the file named ..._FS_ 24-01v2 stands in a lower-case folder of
\* another month
C7_Witness ==
  \E i \in RowLines(temp_csv) :
    /\ temp_csv.lines[i].src.folder = 1
    /\ temp_csv.lines[i].src.file = FileB
    /\ IsLower(entries[1].name[1])
    /\ temp_csv.lines[i].fields[5] # <<"0","1">>

(***************************************************************************)
(* C8.  Every accumulated row has a key field that is not null and not     *)
(* empty after trimming, in the filtered block and in the temp CSV's text; *)
(* filtering the filtered block again returns it unchanged.                *)
(***************************************************************************)
C8_KeyNeverEmpty ==
  /\ \A i \in RowLines(temp_csv) : Strip(temp_csv.lines[i].fields[6]) # <<>>
  /\ \A i \in DOMAIN call.data :
       /\ call.data[i][1].t # "nan"
       /\ Strip(AsStr(call.data[i][1]).s) # <<>>
  /\ RowFilter(call.data) = call.data

\* a file was appended whose block held a null key, a blank key and rows
\* that were kept
C8_Witness ==
  /\ call.outcome = "appended"
  /\ call.data # <<>>
  /\ \E i \in DOMAIN call.block : call.block[i][1] = NaN
  /\ \E i \in DOMAIN call.block :
       call.block[i][1].t = "str" /\ Strip(call.block[i][1].s) = <<>>
  /\ Len(temp_csv.lines) = 1 + Len(call.data)

(***************************************************************************)
(* C9.  For any sheet, the header is the first row of the sheet that holds *)
(* a cell equal to "Account No."; its trimmed cells are the column labels  *)
(* and the data block is exactly the rows below it.                        *)
(* Violated: read_excel takes the sheet's first row as column labels, so   *)
(* the scan starts at the second row; an anchor in the first row is not    *)
(* found, or a later anchor row is taken instead.                          *)
(***************************************************************************)
C9_HeaderIsFirstAnchorRow ==
  (call.has_sheet /\ ~SheetLacksAnchor(call.grid)) =>
    LET h == CHOOSE i \in DOMAIN call.grid :
               /\ RowHasAnchor(call.grid[i])
               /\ \A j \in 1..(i - 1) : ~RowHasAnchor(call.grid[j])
    IN  /\ call.outcome # "noanchor"
        /\ call.columns = [j \in DOMAIN call.grid[h] |-> Strip(AsStr(call.grid[h][j]).s)]
        /\ call.block = SubSeq(call.grid, h + 1, Len(call.grid))

(***************************************************************************)
(* C10. main() visits the entries in sorted name order, builds a processor *)
(* for exactly the month folders it has reached, and ends in Done having   *)
(* visited every entry (unless a workbook could not be read).              *)
(* Violated through C1: a folder whose name-valid files were all skipped   *)
(* ends main() with an exception, and the entries after it are never       *)
(* visited.                                                                *)
(***************************************************************************)
C10_ScanReachesDone ==
  LET reached == IF pc \in {"ProcessingFolder", "Crashed"} THEN idx ELSE idx - 1
  IN  /\ \A i, j \in DOMAIN entries : i < j => StrLess(entries[i].name, entries[j].name)
      /\ Len(built) = Cardinality({ i \in MonthFolders : i <= reached })
      /\ \A k \in DOMAIN built :
           \E i \in MonthFolders : i <= reached /\ entries[i].name = built[k]
      /\ (Terminated /\ ~UnreadableFile) => (pc = "Done" /\ idx = Len(entries) + 1)

====
